---- MODULE Spec2Model ----
(***************************************************************************)
(* Model of the markdown-to-PDF layout engine of src/markdown_to_pdf.py    *)
(* (create_pdf_from_text and sanitize_text).                               *)
(*                                                                         *)
(* Text is a sequence of characters; a character is a one-element string   *)
(* ("a", " ", "*") or a named token: "TICK" is the backtick, "BULLET" the  *)
(* bullet glyph, "EMDASH", "LDQUO", ... the Unicode punctuation that       *)
(* sanitize_text knows.  Lengths are in points; string                     *)
(* widths are in thousandths of a point so that every comparison of the    *)
(* code is exact integer arithmetic.                                       *)
(*                                                                         *)
(* The content is read line by line and never looked at again, so the      *)
(* model reveals it as the scan reads it: the content starts with `pad`    *)
(* empty lines, has `nlines` lines in all, and each later line is chosen   *)
(* when the dispatcher reaches it (a table span chooses all its lines).    *)
(***************************************************************************)
EXTENDS Integers, Sequences, FiniteSets, TLC

VARIABLES
    pad,          \* input: number of empty lines the content starts with
    nlines,       \* input: len(lines), the number of lines of the content
    block,        \* input: the lines read by the last dispatcher iteration
    i,            \* index of the next line of `lines` (0-based, as in the code)
    y_position,   \* the vertical cursor
    pages,        \* number of pdf.showPage() calls so far
    page_drawn,   \* whether a drawing command was issued since the last showPage
    ops,          \* drawing commands issued by the last dispatcher iteration
    kind,         \* block kind the last dispatcher iteration handled
    status,       \* "run" | "done" (bytes returned) | "raised" (exception)
    fnArgs,       \* pure-function specifications: the arguments of the call
    fnRet,        \* ... and its result
    fnDone        \* ... and whether the call has been made

vars == <<pad, nlines, block, i, y_position, pages, page_drawn, ops, kind, status,
          fnArgs, fnRet, fnDone>>

docVars == <<pad, nlines, block, i, y_position, pages, page_drawn, ops, kind, status>>
fnVars == <<fnArgs, fnRet, fnDone>>

(***************************************************************************)
(* Bounds of the model.                                                    *)
(***************************************************************************)
MaxSanLen == 2      \* sanitize_text inputs: texts of up to this many characters
MaxWrapLen == 5     \* word-wrap inputs: cell texts of up to this many characters
MaxLongWords == 3   \* word-wrap inputs: block texts of up to this many long words
MaxLineLen == 4     \* inline-scan inputs: wrapped lines of up to this many characters
MaxSpans == 3       \* inline-scan inputs: lines rendered from up to this many spans
MaxTail == 3        \* documents: lines after the leading empty lines

(***************************************************************************)
(* Python string primitives, on sequences of characters.                   *)
(***************************************************************************)
RECURSIVE BoundedSeq(_, _)
BoundedSeq(S, n) ==
    IF n = 0 THEN {<<>>}
    ELSE LET shorter == BoundedSeq(S, n - 1)
         IN  shorter \cup {Append(s, c) : s \in {t \in shorter : Len(t) = n - 1}, c \in S}

Drop(s, n) == SubSeq(s, n + 1, Len(s))

StartsWith(s, p) == Len(s) >= Len(p) /\ SubSeq(s, 1, Len(p)) = p

Contains(s, c) == \E n \in 1..Len(s) : s[n] = c

\* the least element of a non-empty set of integers
Least(S) == CHOOSE m \in S : \A n \in S : m <= n

\* the n-th smallest element of a set of integers (n = 1 .. Cardinality(S))
Nth(S, n) == CHOOSE m \in S : Cardinality({q \in S : q <= m}) = n

\* s[a:b] with 0-based a, b (0 <= a), clipped at the end of s as Python does
Slice(s, a, b) ==
    LET e == IF b > Len(s) THEN Len(s) ELSE b
    IN  IF a >= e THEN <<>> ELSE SubSeq(s, a + 1, e)

\* str.find(pat, start): the lowest 0-based index >= start where pat occurs, or -1
Find(s, pat, start) ==
    LET hits == {k \in start..(Len(s) - Len(pat)) : Slice(s, k, k + Len(pat)) = pat}
    IN  IF hits = {} THEN -1 ELSE Least(hits)

\* str.replace(pat, rep) for a non-empty pat: leftmost, non-overlapping.
RECURSIVE Replace(_, _, _)
Replace(s, pat, rep) ==
    LET at == Find(s, pat, 0)
    IN  IF at = -1 THEN s
        ELSE Slice(s, 0, at) \o rep \o Replace(Drop(s, at + Len(pat)), pat, rep)

(***************************************************************************)
(* sanitize_text                                                           *)
(***************************************************************************)
Dashes == {"EMDASH", "ENDASH", "MINUS", "HYPHEN", "NBHYPHEN", "FIGDASH", "HBAR"}
SmartDouble == {"LDQUO", "RDQUO"}
SmartSingle == {"LSQUO", "RSQUO"}

\* Line 25 of the source reads  text.replace(''', "'").replace(''', "'") :
\* Python parses ''' ... ''' as one triple-quoted string, so the statement is
\* a single replace of this 15-character pattern by an apostrophe.
TripleQuotedPattern ==
    <<",", " ", "\"", "'", "\"", ")", ".", "r", "e", "p", "l", "a", "c", "e", "(">>

sanitize_text(text) ==
    LET t1 == Replace(text, <<"EMDASH">>, <<"-">>)
        t2 == Replace(t1, <<"ENDASH">>, <<"-">>)
        t3 == Replace(t2, <<"MINUS">>, <<"-">>)
        t4 == Replace(t3, <<"HYPHEN">>, <<"-">>)
        t5 == Replace(t4, <<"NBHYPHEN">>, <<"-">>)
        t6 == Replace(t5, <<"FIGDASH">>, <<"-">>)
        t7 == Replace(t6, <<"HBAR">>, <<"-">>)
        \* line 24: both replaces map the ASCII double quote to itself
        t8 == Replace(Replace(t7, <<"\"">>, <<"\"">>), <<"\"">>, <<"\"">>)
        t9 == Replace(t8, TripleQuotedPattern, <<"'">>)
    IN  Replace(t9, <<"ELLIPSIS">>, <<".", ".", ".">>)

(***************************************************************************)
(* More string primitives: strip, split, join, find, slices.               *)
(***************************************************************************)
Whitespace == {" ", "\t"}

RECURSIVE LStrip(_)
LStrip(s) == IF s # <<>> /\ Head(s) \in Whitespace THEN LStrip(Tail(s)) ELSE s

RECURSIVE RStrip(_)
RStrip(s) ==
    IF s # <<>> /\ s[Len(s)] \in Whitespace THEN RStrip(SubSeq(s, 1, Len(s) - 1)) ELSE s

\* str.strip()
Strip(s) == RStrip(LStrip(s))

\* str.split(): the maximal runs of non-whitespace characters, in order
SplitWs(s) ==
    LET starts == {k \in 1..Len(s) :
                      s[k] \notin Whitespace /\ (k = 1 \/ s[k - 1] \in Whitespace)}
        ends == {k \in 1..Len(s) :
                      s[k] \notin Whitespace /\ (k = Len(s) \/ s[k + 1] \in Whitespace)}
    IN  [n \in 1..Cardinality(starts) |-> SubSeq(s, Nth(starts, n), Nth(ends, n))]

\* str.split(sep) for a one-character sep: every field, the empty ones included
SplitOn(s, sep) ==
    LET seps == {k \in 1..Len(s) : s[k] = sep}
        cut(n) == IF n = 0 THEN 0
                  ELSE IF n = Cardinality(seps) + 1 THEN Len(s) + 1
                  ELSE Nth(seps, n)
    IN  [n \in 1..(Cardinality(seps) + 1) |-> SubSeq(s, cut(n - 1) + 1, cut(n) - 1)]

\* ' '.join(words)
RECURSIVE Join(_)
Join(words) ==
    IF words = <<>> THEN <<>>
    ELSE IF Len(words) = 1 THEN Head(words)
    ELSE Head(words) \o <<" ">> \o Join(Tail(words))

RECURSIVE Concat(_)
Concat(ss) == IF ss = <<>> THEN <<>> ELSE Head(ss) \o Concat(Tail(ss))

(***************************************************************************)
(* The rendering surface's font metrics (pdf.stringWidth): the standard    *)
(* Adobe metrics of the four fonts the code names, in thousandths of the   *)
(* point size per character.                                               *)
(***************************************************************************)
HELV == "Helvetica"
BOLD == "Helvetica-Bold"
OBLIQUE == "Helvetica-Oblique"
COURIER == "Courier"

CharWidth(c, font) ==
    IF font = COURIER THEN 600
    ELSE IF c \in {" ", "\t", ".", ","} THEN 278
    ELSE IF c = "i" THEN (IF font = BOLD THEN 278 ELSE 222)
    ELSE IF c = "b" THEN (IF font = BOLD THEN 611 ELSE 556)
    ELSE IF c = "W" THEN 944
    ELSE IF c = "*" THEN 389
    ELSE IF c \in {"TICK", "-", "(", ")"} THEN 333
    ELSE IF c = "|" THEN (IF font = BOLD THEN 280 ELSE 260)
    ELSE IF c = ">" THEN 584
    ELSE IF c = "'" THEN (IF font = BOLD THEN 238 ELSE 191)
    ELSE IF c = "\"" THEN (IF font = BOLD THEN 474 ELSE 355)
    ELSE IF c = "BULLET" THEN 350
    ELSE 556

\* the sum of the character widths of text[a..b]
RECURSIVE WidthSum(_, _, _, _)
WidthSum(text, font, a, b) ==
    IF a > b THEN 0
    ELSE IF a = b THEN CharWidth(text[a], font)
    ELSE LET m == (a + b) \div 2
         IN  WidthSum(text, font, a, m) + WidthSum(text, font, m + 1, b)

\* pdf.stringWidth(text, font, size), in thousandths of a point
stringWidth(text, font, size) == WidthSum(text, font, 1, Len(text)) * size

\* A wrap budget is a rational number of points, num / den (den > 0):
\* max_width, max_width - 25, max_width - indent_width, col_width - 4.
Fits(widthMilli, budget) == widthMilli * budget.den <= budget.num * 1000

(***************************************************************************)
(* The greedy word-wrap loop (the same loop in every block kind).          *)
(***************************************************************************)
\* Mutant: measures the word alone instead of the candidate line.
RECURSIVE WrapLoopMeasuresWord(_, _, _, _, _, _)
WrapLoopMeasuresWord(words, current_line, wrapped_lines, font, size, budget) ==
    IF words = <<>>
    THEN (IF current_line # <<>> THEN Append(wrapped_lines, Join(current_line))
          ELSE wrapped_lines)
    ELSE LET word == Head(words)
         IN  IF Fits(stringWidth(word, font, size), budget)
             THEN WrapLoopMeasuresWord(Tail(words), Append(current_line, word),
                                       wrapped_lines, font, size, budget)
             ELSE WrapLoopMeasuresWord(Tail(words), <<word>>,
                           IF current_line # <<>>
                           THEN Append(wrapped_lines, Join(current_line))
                           ELSE wrapped_lines,
                           font, size, budget)

\* Mutant: starts the new accumulation empty, losing the word that overflowed.
RECURSIVE WrapLoopDropsWord(_, _, _, _, _, _)
WrapLoopDropsWord(words, current_line, wrapped_lines, font, size, budget) ==
    IF words = <<>>
    THEN (IF current_line # <<>> THEN Append(wrapped_lines, Join(current_line))
          ELSE wrapped_lines)
    ELSE LET word == Head(words)
             test_line == Join(Append(current_line, word))
         IN  IF Fits(stringWidth(test_line, font, size), budget)
             THEN WrapLoopDropsWord(Tail(words), Append(current_line, word),
                                    wrapped_lines, font, size, budget)
             ELSE WrapLoopDropsWord(Tail(words), <<>>,
                           IF current_line # <<>>
                           THEN Append(wrapped_lines, Join(current_line))
                           ELSE wrapped_lines,
                           font, size, budget)

RECURSIVE WrapLoop(_, _, _, _, _, _)
WrapLoop(words, current_line, wrapped_lines, font, size, budget) ==
    IF words = <<>>
    THEN (IF current_line # <<>> THEN Append(wrapped_lines, Join(current_line))
          ELSE wrapped_lines)
    ELSE LET word == Head(words)
             test_line == Join(Append(current_line, word))
         IN  IF Fits(stringWidth(test_line, font, size), budget)
             THEN WrapLoop(Tail(words), Append(current_line, word), wrapped_lines,
                           font, size, budget)
             ELSE WrapLoop(Tail(words), <<word>>,
                           IF current_line # <<>>
                           THEN Append(wrapped_lines, Join(current_line))
                           ELSE wrapped_lines,
                           font, size, budget)

\* wrapped_lines if wrapped_lines else [text]
OrText(wrapped_lines, text) == IF wrapped_lines # <<>> THEN wrapped_lines ELSE <<text>>

\* words = text.split(); the loop; then the fallback
WrapText(text, font, size, budget) ==
    OrText(WrapLoop(SplitWs(text), <<>>, <<>>, font, size, budget), text)

(***************************************************************************)
(* The inline-format scan of one wrapped line (the same loop in paragraphs,*)
(* list items and table cells).  A run is one pdf.drawString call: its     *)
(* text, the font set just before it, and its x offset from the start of   *)
(* the line in thousandths of a point.                                     *)
(***************************************************************************)
Delimiters == {"*", "TICK"}

Run(text, font, size, style, x) ==
    [text |-> text, font |-> font, size |-> size, style |-> style, x |-> x]

\* Mutant: the plain chunk also stops at a blank.
PlainEndAtBlank(wrap_line, k) ==
    Least({e \in k..Len(wrap_line) :
              e = Len(wrap_line) \/ wrap_line[e + 1] \in Delimiters \cup Whitespace})

\* the inner  while k < len(wrap_line) and wrap_line[k] not in ['*', '`']
PlainEnd(wrap_line, k) ==
    Least({e \in k..Len(wrap_line) : e = Len(wrap_line) \/ wrap_line[e + 1] \in Delimiters})

\* Mutant: tries the single-star form before the double-star form.
ScanBranchItalicFirst(wrap_line, j) ==
    IF wrap_line[j + 1] = "*" /\ Find(wrap_line, <<"*">>, j + 1) # -1
    THEN "italic"
    ELSE IF Slice(wrap_line, j, j + 2) = <<"*", "*">> /\ Find(wrap_line, <<"*", "*">>, j + 2) # -1
    THEN "bold"
    ELSE IF wrap_line[j + 1] = "TICK" /\ Find(wrap_line, <<"TICK">>, j + 1) # -1
    THEN "code"
    ELSE IF Len(wrap_line) > j /\ wrap_line[j + 1] \notin Delimiters THEN "plain"
    ELSE "skip"

\* how one iteration of  while j < len(wrap_line)  ends (j is 0-based)
ScanBranch(wrap_line, j) ==
    IF Slice(wrap_line, j, j + 2) = <<"*", "*">> /\ Find(wrap_line, <<"*", "*">>, j + 2) # -1
    THEN "bold"
    ELSE IF wrap_line[j + 1] = "*" /\ Find(wrap_line, <<"*">>, j + 1) # -1
    THEN "italic"
    ELSE IF wrap_line[j + 1] = "TICK" /\ Find(wrap_line, <<"TICK">>, j + 1) # -1
    THEN "code"
    ELSE IF PlainEnd(wrap_line, j) > j THEN "plain"
    ELSE "skip"

\* a styled or plain chunk is drawn: setFont, drawString, current_x += its
\* width in that font; the scan goes on at next_j
DrawChunk(chunk, next_j, font, style, x, size) ==
    [j |-> next_j, x |-> x + stringWidth(chunk, font, size),
     runs |-> <<Run(chunk, font, size, style, x)>>]

\* a chunk that starts one character late
DrawSpanSkipsACharacter(wrap_line, from, end, delim_len, font, style, x, size) ==
    DrawChunk(Slice(wrap_line, from + 1, end), end + delim_len, font, style, x, size)

\* chunk = wrap_line[from:end]; j = end + len(delimiter)
DrawSpan(wrap_line, from, end, delim_len, font, style, x, size) ==
    DrawChunk(Slice(wrap_line, from, end), end + delim_len, font, style, x, size)

\* an iteration that stays at a delimiter it cannot match
ScanStepOfStaysAtDelimiter(branch, wrap_line, j, x, base, size) ==
    CASE branch = "bold" ->
           DrawSpan(wrap_line, j + 2, Find(wrap_line, <<"*", "*">>, j + 2), 2,
                    BOLD, "Bold", x, size)
      [] branch = "italic" ->
           DrawSpan(wrap_line, j + 1, Find(wrap_line, <<"*">>, j + 1), 1,
                    OBLIQUE, "Italic", x, size)
      [] branch = "code" ->
           DrawSpan(wrap_line, j + 1, Find(wrap_line, <<"TICK">>, j + 1), 1,
                    COURIER, "Code", x, size)
      [] branch = "plain" ->
           DrawSpan(wrap_line, j, PlainEnd(wrap_line, j), 0, base, "Plain", x, size)
      [] OTHER ->
           [j |-> j, x |-> x, runs |-> <<>>]

\* one iteration: the new j, the new current_x, and the runs drawn (none or one)
ScanStepOf(branch, wrap_line, j, x, base, size) ==
    CASE branch = "bold" ->
           DrawSpan(wrap_line, j + 2, Find(wrap_line, <<"*", "*">>, j + 2), 2,
                    BOLD, "Bold", x, size)
      [] branch = "italic" ->
           DrawSpan(wrap_line, j + 1, Find(wrap_line, <<"*">>, j + 1), 1,
                    OBLIQUE, "Italic", x, size)
      [] branch = "code" ->
           DrawSpan(wrap_line, j + 1, Find(wrap_line, <<"TICK">>, j + 1), 1,
                    COURIER, "Code", x, size)
      [] branch = "plain" ->
           DrawSpan(wrap_line, j, PlainEnd(wrap_line, j), 0, base, "Plain", x, size)
      [] OTHER ->          \* k = j: nothing is drawn, j = j + 1
           [j |-> j + 1, x |-> x, runs |-> <<>>]

ScanStep(wrap_line, j, x, base, size) ==
    ScanStepOf(ScanBranch(wrap_line, j), wrap_line, j, x, base, size)

\* the whole loop, from j on
RECURSIVE ScanFrom(_, _, _, _, _)
ScanAfter(wrap_line, st, base, size) ==
    st.runs \o ScanFrom(wrap_line, st.j, st.x, base, size)

ScanFrom(wrap_line, j, x, base, size) ==
    IF j < Len(wrap_line)
    THEN ScanAfter(wrap_line, ScanStep(wrap_line, j, x, base, size), base, size)
    ELSE <<>>

InlineScan(wrap_line, base, size) == ScanFrom(wrap_line, 0, 0, base, size)

(***************************************************************************)
(* Specification of sanitize_text as a pure function.                      *)
(***************************************************************************)
SanAlphabet == Dashes \cup SmartDouble \cup SmartSingle \cup {"ELLIPSIS", "a", "-", "'", "\"", "."}

SanInputs == BoundedSeq(SanAlphabet, MaxSanLen) \cup {TripleQuotedPattern \o <<"a">>}

DocIdle ==
    /\ pad = 0 /\ nlines = 0 /\ block = <<>> /\ i = 0 /\ y_position = 0 /\ pages = 0
    /\ page_drawn = FALSE /\ ops = <<>> /\ kind = "none" /\ status = "idle"

InitSanitize ==
    /\ DocIdle
    /\ fnArgs \in {[fn |-> "sanitize_text", text |-> t] : t \in SanInputs}
    /\ fnRet = <<>>
    /\ fnDone = FALSE

CallSanitize ==
    /\ ~fnDone
    /\ fnArgs.fn = "sanitize_text"
    /\ fnRet' = sanitize_text(fnArgs.text)
    /\ fnDone' = TRUE
    /\ UNCHANGED <<fnArgs, docVars>>

NextSanitize == CallSanitize

SpecSanitize == InitSanitize /\ [][NextSanitize]_vars

\* C10: sanitize_text maps each of the seven dashes to "-", each smart double
\* quote to the straight double quote, each smart single quote to the
\* apostrophe and the ellipsis to three periods; the output holds none of the
\* twelve characters and every other character is kept as it is.
SanitizedChar(c) ==
    IF c \in Dashes THEN <<"-">>
    ELSE IF c \in SmartDouble THEN <<"\"">>
    ELSE IF c \in SmartSingle THEN <<"'">>
    ELSE IF c = "ELLIPSIS" THEN <<".", ".", ".">>
    ELSE <<c>>

SanitizedText(t) == Concat([n \in 1..Len(t) |-> SanitizedChar(t[n])])

C10_SanitizeReplacesAllTwelve ==
    (fnDone /\ fnArgs.fn = "sanitize_text") =>
        /\ \A n \in 1..Len(fnRet) :
              fnRet[n] \notin Dashes \cup SmartDouble \cup SmartSingle \cup {"ELLIPSIS"}
        /\ fnRet = SanitizedText(fnArgs.text)

(***************************************************************************)
(* Specification of the word-wrap loop as a pure function, called with the *)
(* font, size and budget of each of its call sites.                        *)
(***************************************************************************)
max_width == 468           \* right_margin - left_margin = (612 - 72) - 72

Whole(n) == [num |-> n, den |-> 1]

\* col_width - 4  with  col_width = max_width / num_cols
CellBudget(num_cols) == [num |-> max_width - 4 * num_cols, den |-> num_cols]

Rep(c, n) == [k \in 1..n |-> c]

\* a text as the code passes it to the loop: stripped and not empty
IsStripped(t) == t # <<>> /\ t[1] \notin Whitespace /\ t[Len(t)] \notin Whitespace

NumColsChoices == {30, 40, 60, 120}

CellSites ==
    {[font |-> f, size |-> 10, budget |-> CellBudget(n)] :
        f \in {BOLD, HELV}, n \in NumColsChoices}

BlockSites ==
    { [font |-> OBLIQUE, size |-> 11, budget |-> Whole(max_width - 20)],   \* block quote
      [font |-> BOLD, size |-> 11, budget |-> Whole(max_width)],           \* ###
      [font |-> BOLD, size |-> 13, budget |-> Whole(max_width)],           \* ##
      [font |-> BOLD, size |-> 15, budget |-> Whole(max_width)],           \* #
      [font |-> HELV, size |-> 11, budget |-> Whole(max_width - 25)],      \* list items
      [font |-> HELV, size |-> 11, budget |-> Whole(max_width)] }          \* paragraph

CellTexts == {t \in BoundedSeq({"a", "i", " "}, MaxWrapLen) : IsStripped(t)}

LongWords == {Rep("W", 20), Rep("W", 46), Rep("a", 9)}

LongTexts == {Join(ws) : ws \in BoundedSeq(LongWords, MaxLongWords) \ {<<>>}}

WrapCall(t, site) ==
    [fn |-> "wrap", text |-> t, font |-> site.font, size |-> site.size,
     budget |-> site.budget]

InitWrap ==
    /\ DocIdle
    /\ fnArgs \in {WrapCall(t, site) : t \in CellTexts, site \in CellSites}
                  \cup {WrapCall(t, site) : t \in LongTexts, site \in BlockSites}
    /\ fnRet = <<>>
    /\ fnDone = FALSE

CallWrap ==
    /\ ~fnDone
    /\ fnArgs.fn = "wrap"
    /\ fnRet' = WrapText(fnArgs.text, fnArgs.font, fnArgs.size, fnArgs.budget)
    /\ fnDone' = TRUE
    /\ UNCHANGED <<fnArgs, docVars>>

NextWrap == CallWrap

SpecWrap == InitWrap /\ [][NextWrap]_vars

WrapDone == fnDone /\ fnArgs.fn = "wrap"

LineFits(line) == Fits(stringWidth(line, fnArgs.font, fnArgs.size), fnArgs.budget)

\* a line that is one word of the text, unsplit, and wider than the budget
IsOverwideWord(line) ==
    /\ SplitWs(line) = <<line>>
    /\ \E n \in 1..Len(SplitWs(fnArgs.text)) : SplitWs(fnArgs.text)[n] = line
    /\ ~LineFits(line)

\* C5: every line the word-wrap loop produces either measures at most the
\* budget in the font and size it was wrapped for, or is exactly one unsplit
\* word of the text that by itself is wider than the budget.
C5_LineFitsOrIsOneOverwideWord ==
    WrapDone => \A n \in 1..Len(fnRet) : LineFits(fnRet[n]) \/ IsOverwideWord(fnRet[n])

C5_Witness ==
    /\ WrapDone
    /\ \E n \in 1..Len(fnRet) : IsOverwideWord(fnRet[n])
    /\ \E n \in 1..Len(fnRet) : Len(SplitWs(fnRet[n])) >= 2 /\ LineFits(fnRet[n])

\* C6: the words of the wrapped lines, taken line after line, are exactly the
\* whitespace-separated words of the text, in order, and no line is empty.
C6_LinesKeepTheWords ==
    WrapDone =>
        /\ Concat([n \in 1..Len(fnRet) |-> SplitWs(fnRet[n])]) = SplitWs(fnArgs.text)
        /\ \A n \in 1..Len(fnRet) : fnRet[n] # <<>>

C6_Witness ==
    /\ WrapDone
    /\ Len(fnRet) >= 2
    /\ Len(SplitWs(fnArgs.text)) > Len(fnRet)

(***************************************************************************)
(* Specification of the inline-format scan, one loop iteration per step,   *)
(* on the wrapped lines the word-wrap loop can hand it: words joined by    *)
(* single spaces, never empty.                                             *)
(***************************************************************************)
IsWrappedLine(l) == l # <<>> /\ Join(SplitWs(l)) = l

\* (base font, size) of the scan's call sites: paragraph and list items,
\* table header cells, table data cells
ScanSites ==
    { [font |-> HELV, size |-> 11], [font |-> BOLD, size |-> 10],
      [font |-> HELV, size |-> 10] }

RawLines == {l \in BoundedSeq({"*", "TICK", "a", " "}, MaxLineLen) : IsWrappedLine(l)}

\* A span is a styled piece of text as the author meant it; its markdown.
SpanTexts == {<<>>, <<"a">>, <<" ">>, <<" ", "a", " ">>}

Spans ==
    {[style |-> st, text |-> t] : st \in {"Bold", "Code"}, t \in SpanTexts}
    \cup {[style |-> st, text |-> t] : st \in {"Italic", "Plain"}, t \in SpanTexts \ {<<>>}}

Markdown(span) ==
    CASE span.style = "Bold" -> <<"*", "*">> \o span.text \o <<"*", "*">>
      [] span.style = "Italic" -> <<"*">> \o span.text \o <<"*">>
      [] span.style = "Code" -> <<"TICK">> \o span.text \o <<"TICK">>
      [] OTHER -> span.text

RenderSpans(ss) == Concat([n \in 1..Len(ss) |-> Markdown(ss[n])])

\* matched pairs separated by plain text: two plain spans never touch
SpanLines ==
    {ss \in BoundedSeq(Spans, MaxSpans) :
        /\ IsWrappedLine(RenderSpans(ss))
        /\ \A n \in 1..(Len(ss) - 1) : ~(ss[n].style = "Plain" /\ ss[n + 1].style = "Plain")}

ScanCall(l, site, ss, fromSpans) ==
    [fn |-> "scan", wrap_line |-> l, font |-> site.font, size |-> site.size,
     spans |-> ss, fromSpans |-> fromSpans]

InitInline ==
    /\ DocIdle
    /\ fnArgs \in {ScanCall(l, site, <<>>, FALSE) : l \in RawLines, site \in ScanSites}
                  \cup {ScanCall(RenderSpans(ss), site, ss, TRUE) :
                            ss \in SpanLines, site \in ScanSites}
    /\ fnRet = [j |-> 0, x |-> 0, runs |-> <<>>]       \* current_x = start, j = 0
    /\ fnDone = FALSE

AfterStep(runs, st) == [j |-> st.j, x |-> st.x, runs |-> runs \o st.runs]

\* one iteration of  while j < len(wrap_line)
ScanIter ==
    /\ ~fnDone
    /\ fnArgs.fn = "scan"
    /\ fnRet.j < Len(fnArgs.wrap_line)
    /\ fnRet' = AfterStep(fnRet.runs,
                          ScanStep(fnArgs.wrap_line, fnRet.j, fnRet.x, fnArgs.font, fnArgs.size))
    /\ UNCHANGED <<fnArgs, fnDone, docVars>>

\* the loop condition fails
ScanExit ==
    /\ ~fnDone
    /\ fnArgs.fn = "scan"
    /\ fnRet.j >= Len(fnArgs.wrap_line)
    /\ fnDone' = TRUE
    /\ UNCHANGED <<fnArgs, fnRet, docVars>>

NextInline == ScanIter \/ ScanExit

SpecInline == InitInline /\ [][NextInline]_vars

ScanDone == fnDone /\ fnArgs.fn = "scan"

StyledText(runs) == [n \in 1..Len(runs) |-> [style |-> runs[n].style, text |-> runs[n].text]]

FontOf(style, base) ==
    CASE style = "Bold" -> BOLD
      [] style = "Italic" -> OBLIQUE
      [] style = "Code" -> COURIER
      [] OTHER -> base

\* the delimiter that opens at 0-based j has no closing delimiter after it
UnmatchedAt(l, j) ==
    /\ j < Len(l)
    /\ l[j + 1] \in Delimiters
    /\ IF Slice(l, j, j + 2) = <<"*", "*">> THEN Find(l, <<"*", "*">>, j + 2) = -1
       ELSE IF l[j + 1] = "*" THEN Find(l, <<"*">>, j + 1) = -1
       ELSE Find(l, <<"TICK">>, j + 1) = -1

\* C7: when the scan stands on an opening delimiter that has no closing
\* delimiter later in the line, that iteration draws the delimiter character
\* itself as one run in the base font, starts no styled run, and moves the
\* scan one character forward.
C7_UnmatchedDelimiterIsLiteral ==
    [][ (ScanIter /\ UnmatchedAt(fnArgs.wrap_line, fnRet.j)) =>
          /\ fnRet'.j = fnRet.j + 1
          /\ fnRet'.runs =
               Append(fnRet.runs,
                      Run(<<fnArgs.wrap_line[fnRet.j + 1]>>, fnArgs.font, fnArgs.size,
                          "Plain", fnRet.x)) ]_vars

\* C8: a line written as matched, non-nested spans gives exactly one run per
\* span, in order: Bold for **..**, Italic for *..*, Code for `..`, Plain for
\* the text between them, each drawn in its style's font.
C8_MatchedSpansGiveTheirRuns ==
    (ScanDone /\ fnArgs.fromSpans) =>
        /\ StyledText(fnRet.runs) = fnArgs.spans
        /\ \A n \in 1..Len(fnRet.runs) :
              /\ fnRet.runs[n].font = FontOf(fnRet.runs[n].style, fnArgs.font)
              /\ fnRet.runs[n].size = fnArgs.size

C8_Witness ==
    /\ ScanDone /\ fnArgs.fromSpans
    /\ Len(fnRet.runs) = 3
    /\ fnRet.runs[1].style = "Italic" /\ fnRet.runs[1].text = <<"a">>
    /\ fnRet.runs[2].style = "Plain"
    /\ fnRet.runs[3].style = "Bold" /\ fnRet.runs[3].text = <<"a">>

\* C9: a line without `*` and without backtick is drawn by exactly one
\* drawString, in the base font and size, whose text is the whole line.
C9_PlainLineIsOneRun ==
    (ScanDone /\ \A n \in 1..Len(fnArgs.wrap_line) : fnArgs.wrap_line[n] \notin Delimiters) =>
        fnRet.runs = <<Run(fnArgs.wrap_line, fnArgs.font, fnArgs.size, "Plain", 0)>>

C9_Witness ==
    /\ ScanDone
    /\ \A n \in 1..Len(fnArgs.wrap_line) : fnArgs.wrap_line[n] \notin Delimiters
    /\ Contains(fnArgs.wrap_line, " ")
    /\ Len(fnRet.runs) = 1

(***************************************************************************)
(* create_pdf_from_text: page geometry and the layout state.               *)
(***************************************************************************)
height == 792              \* letter = (612, 792)
left_margin == 72
line_height == 14
bottom_margin == 72        \* the 72 of  if y_position < 72
top_margin == 72           \* the 72 of  y_position = height - 72

\* A drawing command.  page: showPage calls before it; ycur: y_position when
\* it was issued; y: the y it draws at (a rectangle's lower edge, a text's
\* baseline); h: a rectangle's height; unit: what is being drawn ("header",
\* "row", "text", "rule", "marker", "title", "page"); row, col, ln: data row,
\* column and wrapped-line index (0-based); ncols: columns of the table;
\* indent: points right of the unit's left edge; off: thousandths of a point
\* further right (current_x).
Op(op, L, unit, y, h, row, col, ncols, ln, indent, run) ==
    [op |-> op, page |-> L.pages, ycur |-> L.y, y |-> y, h |-> h, unit |-> unit,
     row |-> row, col |-> col, ncols |-> ncols, ln |-> ln, indent |-> indent,
     off |-> run.x, text |-> run.text, font |-> run.font, size |-> run.size,
     style |-> run.style]

NoRun == Run(<<>>, "", 0, "", 0)

\* a check that lets the cursor run to the paper's edge before it breaks
NeedsNewPageAtPaperEdge(y) == y < 0

\* y_position < 72
NeedsNewPage(y) == y < bottom_margin

\* a page check that moves the cursor to the top margin on the same page
PageCheckKeepsThePage(L) ==
    IF NeedsNewPage(L.y) THEN [y |-> height - top_margin, pages |-> L.pages, ops |-> L.ops]
    ELSE L

\* if y_position < 72: pdf.showPage(); y_position = height - 72
PageCheck(L) ==
    IF NeedsNewPage(L.y)
    THEN [y |-> height - top_margin, pages |-> L.pages + 1,
          ops |-> Append(L.ops, Op("showPage", L, "page", 0, 0, 0, 0, 0, 0, 0, NoRun))]
    ELSE L

(***************************************************************************)
(* Block classification, in the order of the if / elif chain.              *)
(***************************************************************************)
Digits == {"0", "1", "2", "3", "4", "5", "6", "7", "8", "9"}

\* number of leading digits
LeadingDigits(s) == Least({k \in 0..Len(s) : k = Len(s) \/ s[k + 1] \notin Digits})

\* re.match(r'^[-_*]{3,}$', stripped)
IsRule(stripped) ==
    Len(stripped) >= 3 /\ \A n \in 1..Len(stripped) : stripped[n] \in {"-", "_", "*"}

\* re.match(r'^\d+\.\s', stripped)
IsNumbered(stripped) ==
    LET d == LeadingDigits(stripped)
    IN  d >= 1 /\ Len(stripped) >= d + 2 /\ stripped[d + 1] = "." /\ stripped[d + 2] \in Whitespace

\* a dispatcher that takes any line holding a pipe for the start of a table
ClassifyTableOnAnyPipe(stripped) ==
    IF Contains(stripped, "|") THEN "table"
    ELSE IF IsRule(stripped) THEN "rule"
    ELSE IF StartsWith(stripped, <<">", " ">>) THEN "quote"
    ELSE IF StartsWith(stripped, <<"#", "#", "#", " ">>) THEN "h3"
    ELSE IF StartsWith(stripped, <<"#", "#", " ">>) THEN "h2"
    ELSE IF StartsWith(stripped, <<"#", " ">>) THEN "h1"
    ELSE IF StartsWith(stripped, <<"-", " ">>) \/ StartsWith(stripped, <<"*", " ">>) THEN "bullet"
    ELSE IF IsNumbered(stripped) THEN "numbered"
    ELSE IF stripped = <<>> THEN "blank"
    ELSE "paragraph"

Classify(stripped) ==
    IF Contains(stripped, "|") /\ StartsWith(stripped, <<"|">>) THEN "table"
    ELSE IF IsRule(stripped) THEN "rule"
    ELSE IF StartsWith(stripped, <<">", " ">>) THEN "quote"
    ELSE IF StartsWith(stripped, <<"#", "#", "#", " ">>) THEN "h3"
    ELSE IF StartsWith(stripped, <<"#", "#", " ">>) THEN "h2"
    ELSE IF StartsWith(stripped, <<"#", " ">>) THEN "h1"
    ELSE IF StartsWith(stripped, <<"-", " ">>) \/ StartsWith(stripped, <<"*", " ">>) THEN "bullet"
    ELSE IF IsNumbered(stripped) THEN "numbered"
    ELSE IF stripped = <<>> THEN "blank"
    ELSE "paragraph"

(***************************************************************************)
(* Text blocks: block quote, headings, list items, paragraph.              *)
(***************************************************************************)
\* What the branch of each text block fixes: the text it wraps, the font and
\* size it measures and draws with, the wrap budget, the indent of the text,
\* the cursor advance per wrapped line, whether the line goes through the
\* inline scan, and the marker drawn before the first wrapped line.
\* stripped[2:], [3:], [4:]; match.group(2) of a numbered item is what follows
\* the digits, the period and one whitespace character
BlockPrefix(k, stripped) ==
    CASE k \in {"quote", "h1", "bullet"} -> 2
      [] k = "h2" -> 3
      [] k = "h3" -> 4
      [] k = "numbered" -> LeadingDigits(stripped) + 2
      [] OTHER -> 0

BlockFont(k) ==
    CASE k = "quote" -> OBLIQUE
      [] k \in {"h1", "h2", "h3"} -> BOLD
      [] OTHER -> HELV

BlockSize(k) ==
    CASE k = "h2" -> 13
      [] k = "h1" -> 15
      [] OTHER -> 11

BlockBudget(k) ==
    CASE k = "quote" -> Whole(max_width - 20)       \* indent_width = 20
      [] k \in {"bullet", "numbered"} -> Whole(max_width - 25)
      [] OTHER -> Whole(max_width)

BlockIndent(k) ==
    CASE k = "quote" -> 20
      [] k \in {"bullet", "numbered"} -> 25
      [] OTHER -> 0

BlockAdvance(k) ==
    CASE k = "h2" -> line_height + 2
      [] k = "h1" -> line_height + 4
      [] OTHER -> line_height

\* the bullet glyph, or match.group(1): the digits and the period
BlockMarker(k, stripped) ==
    CASE k = "bullet" -> <<"BULLET">>
      [] k = "numbered" -> SubSeq(stripped, 1, LeadingDigits(stripped) + 1)
      [] OTHER -> <<>>

TextBlock(k, stripped) ==
    [text |-> sanitize_text(Drop(stripped, BlockPrefix(k, stripped))),
     font |-> BlockFont(k), size |-> BlockSize(k), budget |-> BlockBudget(k),
     indent |-> BlockIndent(k), advance |-> BlockAdvance(k),
     inline |-> k \in {"bullet", "numbered", "paragraph"},
     marker |-> BlockMarker(k, stripped)]

\* one drawString per run
RunOps(L, unit, y, row, col, ncols, ln, indent, runs) ==
    [n \in 1..Len(runs) |->
        Op("drawString", L, unit, y, 0, row, col, ncols, ln, indent, runs[n])]

\* the drawString calls of one wrapped line, at the cursor
LineOps(L, tb, wrap_idx, wrap_line) ==
    (IF wrap_idx = 0 /\ tb.marker # <<>>
     THEN <<Op("drawString", L, "marker", L.y, 0, 0, 0, 0, wrap_idx, 10,
               Run(tb.marker, HELV, 11, "Plain", 0))>>
     ELSE <<>>)
    \o RunOps(L, "text", L.y, 0, 0, 0, wrap_idx, tb.indent,
              IF tb.inline THEN InlineScan(wrap_line, tb.font, tb.size)
              ELSE <<Run(wrap_line, tb.font, tb.size, "Plain", 0)>>)

\* an advance that moves the cursor up the page
EmitAdvanceUpward(L, newOps, dy) ==
    [y |-> L.y + dy, pages |-> L.pages, ops |-> L.ops \o newOps]

\* the commands are issued, then  y_position -= dy
EmitAdvance(L, newOps, dy) ==
    [y |-> L.y - dy, pages |-> L.pages, ops |-> L.ops \o newOps]

\* one wrapped line, after its page check
DrawLine(L, tb, wrap_idx, wrap_line) ==
    EmitAdvance(L, LineOps(L, tb, wrap_idx, wrap_line), tb.advance)

\* for wrap_line in wrapped_lines: page check, draw, advance
RECURSIVE TextLines(_, _, _, _)
TextLines(L, tb, wrapped_lines, wrap_idx) ==
    IF wrap_idx >= Len(wrapped_lines) THEN L
    ELSE TextLines(DrawLine(PageCheck(L), tb, wrap_idx, wrapped_lines[wrap_idx + 1]),
                   tb, wrapped_lines, wrap_idx + 1)

WrapAndDraw(L, tb) ==
    TextLines(L, tb, WrapText(tb.text, tb.font, tb.size, tb.budget), 0)

TextBlockLayout(L, k, stripped) == WrapAndDraw(L, TextBlock(k, stripped))

\* horizontal rule: its own page check, the line, the advance
DrawRule(L) ==
    EmitAdvance(L, <<Op("line", L, "rule", L.y, 0, 0, 0, 0, 0, 0, NoRun)>>, line_height)

RuleLayout(L) == DrawRule(PageCheck(L))

\* empty line:  y_position -= line_height / 2
BlankLayout(L) == EmitAdvance(L, <<>>, line_height \div 2)

(***************************************************************************)
(* Tables.                                                                 *)
(***************************************************************************)
NonEmpty(x) == x # <<>>

Max(a, b) == IF a >= b THEN a ELSE b
Min(a, b) == IF a <= b THEN a ELSE b

\* [cell.strip() for cell in row_line.split('|') if cell.strip()]
ParseCells(row_line) ==
    LET fields == SplitOn(row_line, "|")
    IN  SelectSeq([n \in 1..Len(fields) |-> Strip(fields[n])], NonEmpty)

\* data rows that take the second line of the span for a row
DataRowsKeepSecondLine(table_lines) ==
    SelectSeq([n \in 1..(Len(table_lines) - 1) |-> ParseCells(table_lines[n + 1])], NonEmpty)

\* data_rows: the cells of table_lines[2:], the rows without cells left out
DataRowsOf(table_lines) ==
    SelectSeq([n \in 1..(Len(table_lines) - 2) |-> ParseCells(table_lines[n + 2])], NonEmpty)

\* a first pass that keeps the cells beyond the header's width
WrapCellsKeepsEveryCell(cells, font, num_cols) ==
    [c \in 1..Len(cells) |->
        WrapText(sanitize_text(cells[c]), font, 10, CellBudget(num_cols))]

\* first pass over a row: each of its first num_cols cells, sanitized and wrapped
WrapCells(cells, font, num_cols) ==
    [c \in 1..Min(Len(cells), num_cols) |->
        WrapText(sanitize_text(cells[c]), font, 10, CellBudget(num_cols))]

RECURSIVE MaxLines(_, _)
MaxLines(wrapped, c) ==
    IF c > Len(wrapped) THEN 1 ELSE Max(Len(wrapped[c]), MaxLines(wrapped, c + 1))

\* a row height that is fixed instead of computed from the cells
RowHeightFixed(wrapped) == 15

\* max_row_lines * 10 + 5
RowHeight(wrapped) == MaxLines(wrapped, 1) * 10 + 5

\* second pass over a row: per cell the rectangle, then the inline-formatted
\* wrapped lines, 10 apart, from 10 below the cursor
CellLineOps(L, wrap_line, unit, row, col, num_cols, wrap_idx, base) ==
    RunOps(L, unit, L.y - 10 - wrap_idx * 10, row, col, num_cols, wrap_idx, 2,
           InlineScan(wrap_line, base, 10))

CellOps(L, wrapped_lines, unit, row, col, num_cols, base, hgt) ==
    <<Op("rect", L, unit, L.y - hgt + 3, hgt, row, col, num_cols, 0, 0, NoRun)>>
    \o Concat([w \in 1..Len(wrapped_lines) |->
                  CellLineOps(L, wrapped_lines[w], unit, row, col, num_cols, w - 1, base)])

RowOps(L, wrapped, unit, row, base, num_cols, hgt) ==
    Concat([c \in 1..Len(wrapped) |->
               CellOps(L, wrapped[c], unit, row, c - 1, num_cols, base, hgt)])

\* a row is drawn at the cursor, then  y_position -= its height
DrawRow(L, wrapped, unit, row, base, num_cols) ==
    EmitAdvance(L, RowOps(L, wrapped, unit, row, base, num_cols, RowHeight(wrapped)),
                RowHeight(wrapped))

\* the header row: drawn at the cursor without a page check of its own
HeaderLayout(L, header) ==
    DrawRow(L, WrapCells(header, BOLD, Len(header)), "header", 0, BOLD, Len(header))

\* a data row whose page check sits inside the cell loop, after the first cell
DataRowLayoutBreaksInside(L, cells, row, num_cols) ==
    LET wrapped == WrapCells(cells, HELV, num_cols)
        hgt == RowHeight(wrapped)
        first == IF wrapped = <<>> THEN <<>>
                 ELSE CellOps(L, wrapped[1], "row", row, 0, num_cols, HELV, hgt)
        L1 == PageCheck(EmitAdvance(L, first, 0))
        rest == Concat([c \in 1..(Len(wrapped) - 1) |->
                           CellOps(L1, wrapped[c + 1], "row", row, c, num_cols, HELV, hgt)])
    IN  EmitAdvance(L1, rest, hgt)

\* one data row: page check, first pass, second pass, advance
DataRowLayout(L, cells, row, num_cols) ==
    DrawRow(PageCheck(L), WrapCells(cells, HELV, num_cols), "row", row, HELV, num_cols)

RECURSIVE DataRowsLayout(_, _, _, _)
DataRowsLayout(L, data_rows, row, num_cols) ==
    IF row >= Len(data_rows) THEN L
    ELSE DataRowsLayout(DataRowLayout(L, data_rows[row + 1], row, num_cols),
                        data_rows, row + 1, num_cols)

\* col_width = max_width / num_cols  raises ZeroDivisionError
TableRaises(table_lines) == Len(table_lines) >= 2 /\ ParseCells(table_lines[1]) = <<>>

\* header, data rows, then  y_position -= line_height
DrawTable(L, header, data_rows) ==
    EmitAdvance(DataRowsLayout(HeaderLayout(L, header), data_rows, 0, Len(header)),
                <<>>, line_height)

\* a table branch that moves the cursor after a span of one line as well
TableLayoutAlwaysAdvances(L, table_lines) ==
    IF Len(table_lines) >= 2
    THEN DrawTable(L, ParseCells(table_lines[1]), DataRowsOf(table_lines))
    ELSE EmitAdvance(L, <<>>, line_height)

TableLayout(L, table_lines) ==
    IF Len(table_lines) >= 2
    THEN DrawTable(L, ParseCells(table_lines[1]), DataRowsOf(table_lines))
    ELSE L


(***************************************************************************)
(* The documents of the model.                                             *)
(***************************************************************************)
\* lines that hold a `|`
PipeLines ==
    { <<"|", "a", "|", "b", "|">>,                                     \* |a|b|
      <<"|", "-", "|", "-", "|">>,                                     \* |-|-|
      <<"|", " ", "a", " ", "|", " ", "|", " ", "b", " ", "|", "i", "|">>,  \* | a | | b |i|
      <<"|">>,                                                         \* no cell at all
      Concat(Rep(<<"|", "a">>, 8)) \o <<"|">>,                         \* eight columns
      <<"|">> \o Join(Rep(<<"a">>, 7)) \o <<"|">>,                     \* |a a a a a a a|
      <<"a", "|", "*", "b">> }                                         \* a|*b

\* lines without a `|`
PlainLines ==
    { <<>>,
      <<"-", "-", "-">>,
      <<">", " ", "a">>,
      <<"#", "#", "#", " ", "a">>,
      <<"#", "#", " ", "a">>,
      <<"#", " ", "a">>,
      <<"-", " ", "*", "a", "*">>,
      <<"1", ".", " ", "a">>,
      <<"a", " ", "*", "*", "b", "*", "*">>,
      Join(Rep(Rep("W", 20), 3)) }              \* three long words: wraps in two

\* y_position after the leading empty lines is (height - 120) - 7 * pad
PadChoices == {0, 84, 85, 86}

TitleChoices == {<<"a", "EMDASH", "b">>}

\* what lines[i] can be: an empty line inside the leading run; a line without
\* `|` right after a table span (the span ended there); any line otherwise
NextLines ==
    IF i < pad THEN {<<>>}
    ELSE IF kind = "table" THEN PlainLines
    ELSE PlainLines \cup PipeLines

\* what a table span starting at lines[i] can be: the line, then lines with `|`
NextSpans ==
    IF i < pad THEN {}
    ELSE {<<l>> \o rest : l \in NextLines \cap PipeLines,
                          rest \in BoundedSeq(PipeLines, nlines - i - 1)}

Init ==
    /\ pad \in PadChoices
    /\ nlines \in {n \in pad..(pad + MaxTail) : n >= 1}    \* split('\n') gives a line at least
    /\ block = <<>>
    /\ i = 0
    /\ y_position = height - 120
    /\ pages = 0
    /\ page_drawn = TRUE
    /\ \E title \in TitleChoices :
          ops = <<Op("drawString", [y |-> height - 120, pages |-> 0], "title",
                     height - 80, 0, 0, 0, 0, 0, 0,
                     Run(sanitize_text(title), BOLD, 18, "Plain", 0))>>
    /\ kind = "title"
    /\ status = "run"
    /\ fnArgs = <<>> /\ fnRet = <<>> /\ fnDone = FALSE

\* the layout state at the top of an iteration, after its page check
Top == PageCheck([y |-> y_position, pages |-> pages, ops |-> <<>>])

IsDraw(o) == o.op # "showPage"

\* the state after an iteration that read `consumed` and ended in layout L
Commit(k, consumed, L) ==
    /\ kind' = k
    /\ block' = consumed
    /\ i' = i + Len(consumed)
    /\ y_position' = L.y
    /\ pages' = L.pages
    /\ ops' = L.ops
    /\ page_drawn' =
          IF \E n \in 1..Len(L.ops) : ~IsDraw(L.ops[n])
          THEN IsDraw(L.ops[Len(L.ops)])       \* drawing follows each break but a trailing one
          ELSE page_drawn \/ L.ops # <<>>
    /\ UNCHANGED <<pad, nlines, fnVars>>

Running == status = "run" /\ i < nlines

\* a table span: collected, parsed and drawn, or ZeroDivisionError
Table ==
    /\ Running
    /\ \E table_lines \in NextSpans :
          /\ Classify(Strip(table_lines[1])) = "table"
          /\ IF TableRaises(table_lines)
             THEN Commit("table", table_lines, Top) /\ status' = "raised"
             ELSE Commit("table", table_lines, TableLayout(Top, table_lines))
                  /\ status' = status

HorizontalRule ==
    /\ Running
    /\ \E line \in NextLines :
          /\ Classify(Strip(line)) = "rule"
          /\ Commit("rule", <<line>>, RuleLayout(Top))
    /\ status' = status

\* a text block of kind k: wrapped and drawn line by line
TextStep(k, line) ==
    /\ Classify(Strip(line)) = k
    /\ Commit(k, <<line>>, TextBlockLayout(Top, k, Strip(line)))
    /\ status' = status

BlockQuote == Running /\ \E line \in NextLines : TextStep("quote", line)

Heading3 == Running /\ \E line \in NextLines : TextStep("h3", line)

Heading2 == Running /\ \E line \in NextLines : TextStep("h2", line)

Heading1 == Running /\ \E line \in NextLines : TextStep("h1", line)

BulletItem == Running /\ \E line \in NextLines : TextStep("bullet", line)

NumberedItem == Running /\ \E line \in NextLines : TextStep("numbered", line)

Paragraph == Running /\ \E line \in NextLines : TextStep("paragraph", line)

BlankLine ==
    /\ Running
    /\ \E line \in NextLines :
          /\ Classify(Strip(line)) = "blank"
          /\ Commit("blank", <<line>>, BlankLayout(Top))
    /\ status' = status

\* after the loop: pdf.showPage(); pdf.save(); return the bytes
Finish ==
    /\ status = "run"
    /\ i >= nlines
    /\ status' = "done"
    /\ kind' = "finish"
    /\ block' = <<>>
    /\ ops' = <<Op("showPage", [y |-> y_position, pages |-> pages], "page",
                   0, 0, 0, 0, 0, 0, 0, NoRun)>>
    /\ pages' = pages + 1
    /\ page_drawn' = FALSE
    /\ UNCHANGED <<pad, nlines, i, y_position, fnVars>>

Next ==
    \/ Table
    \/ HorizontalRule
    \/ BlockQuote
    \/ Heading3
    \/ Heading2
    \/ Heading1
    \/ BulletItem
    \/ NumberedItem
    \/ BlankLine
    \/ Paragraph
    \/ Finish

Spec == Init /\ [][Next]_vars

(***************************************************************************)
(* Properties of the page layout.                                          *)
(***************************************************************************)
BlockUnits == {"text", "marker", "rule", "header", "row"}

RowUnits == {"header", "row"}


BreakAt(n) == n \in 1..Len(ops) /\ ops[n].op = "showPage"

\* C1: every drawing command of a block unit (a wrapped text line, a rule, a
\* table header row, a table data row) is issued while y_position >= 72: a
\* cursor below the bottom margin is reset by a page break before the drawing.
C1_UnitsStartAtOrAboveBottomMargin ==
    \A n \in 1..Len(ops) :
        (IsDraw(ops[n]) /\ ops[n].unit \in BlockUnits) => ops[n].ycur >= bottom_margin

\* a page break taken with the cursor below the margin, and a unit drawn after it
C1_Witness ==
    \E n \in 1..(Len(ops) - 1) :
        /\ BreakAt(n)
        /\ ops[n].ycur < bottom_margin
        /\ IsDraw(ops[n + 1])
        /\ ops[n + 1].unit \in BlockUnits
        /\ ops[n + 1].ycur = height - top_margin

\* C2: a header or data row whose height 10 * max wrapped lines + 5 exceeds
\* the space left above the bottom margin (y_position - 72) is drawn after a
\* page break, so that no cell rectangle and no cell text line of a row is
\* placed below the bottom margin.
C2_RowsFitAboveBottomMargin ==
    \A n \in 1..Len(ops) :
        ops[n].unit \in RowUnits =>
            /\ ops[n].y >= bottom_margin
            /\ ops[n].op = "rect" => ops[n].ycur - bottom_margin >= ops[n].h

\* C3: no page break falls between two drawing commands of one table row
\* (header or data): the rectangles and text lines of a row are on one page.
C3_RowIsOnOnePage ==
    \A m, n \in 1..Len(ops) :
        (/\ m < n
         /\ ops[m].unit \in RowUnits
         /\ ops[n].unit = ops[m].unit
         /\ ops[n].row = ops[m].row)
        => /\ ops[n].page = ops[m].page
           /\ \A k \in m..n : ~BreakAt(k)

\* a table that breaks the page between two of its rows, the later row of
\* several cells
C3_Witness ==
    /\ kind = "table"
    /\ \E n \in 2..(Len(ops) - 2) :
          /\ BreakAt(n)
          /\ ops[n - 1].unit \in RowUnits
          /\ ops[n + 1].unit = "row"
          /\ \E k \in (n + 2)..Len(ops) :
                ops[k].unit = "row" /\ ops[k].row = ops[n + 1].row /\ ops[k].col > 0

\* C4: no document makes create_pdf_from_text raise: the dispatcher runs to
\* the end of the lines and the bytes are returned.
C4_MalformedMarkdownNeverRaises == status # "raised"

\* the font and the size a unit's text is measured with when it is wrapped
MeasuredFont(k, unit) ==
    CASE unit = "header" -> BOLD
      [] unit = "row" -> HELV
      [] OTHER -> BlockFont(k)

MeasuredSize(k, unit) == IF unit \in RowUnits THEN 10 ELSE BlockSize(k)

\* C11: every piece of text of a wrapped line (of a text block or of a table
\* cell) is drawn in the font family and point size the line was measured
\* with when it was wrapped, the bold, italic and code runs included.
C11_DrawnInTheMeasuredFont ==
    \A n \in 1..Len(ops) :
        (ops[n].op = "drawString" /\ ops[n].unit \in {"text", "header", "row"})
        => /\ ops[n].font = MeasuredFont(kind, ops[n].unit)
           /\ ops[n].size = MeasuredSize(kind, ops[n].unit)

(***************************************************************************)
(* Properties of tables.  A table step leaves the span it read in `block`  *)
(* and the commands it issued in `ops`.                                    *)
(***************************************************************************)
\* a table span that was drawn
TableDrawn == kind = "table" /\ status = "run" /\ Len(block) >= 2

\* the fields of a line between its pipes that are not blank
CellFields(row_line) ==
    {f \in 1..Len(SplitOn(row_line, "|")) : Strip(SplitOn(row_line, "|")[f]) # <<>>}

CellCount(row_line) == Cardinality(CellFields(row_line))

HasCell(row_line) == CellFields(row_line) # {}

\* the lines of the span from the third on that hold a cell
RowLines == SelectSeq(SubSeq(block, 3, Len(block)), HasCell)

\* the commands of one unit of the table
UnitOps(unit, row) == {k \in 1..Len(ops) : ops[k].unit = unit /\ ops[k].row = row}

RectsAt(unit, row, col) ==
    {k \in UnitOps(unit, row) : ops[k].op = "rect" /\ ops[k].col = col}

\* C12: the header's n cells fix the column count: of a data row with m
\* parsed cells exactly min(m, n) are drawn, one rectangle each, at the
\* columns 0..min(m, n) - 1, and nothing is drawn at any other column.
C12_RowDrawsMinOfItsCellsAndTheHeaders ==
    TableDrawn =>
        \A r \in 1..Len(RowLines) :
            LET drawn == Min(CellCount(RowLines[r]), CellCount(block[1]))
            IN  /\ {ops[k].col : k \in UnitOps("row", r - 1)} = 0..(drawn - 1)
                /\ \A c \in 0..(drawn - 1) : Cardinality(RectsAt("row", r - 1, c)) = 1

\* a data row of more cells than the header has, drawn
C12_Witness ==
    /\ TableDrawn
    /\ Len(RowLines) >= 1
    /\ CellCount(RowLines[1]) > CellCount(block[1])
    /\ RectsAt("row", 0, CellCount(block[1]) - 1) # {}

\* the trimmed fields of a line without the empty edge fields that the leading
\* and the trailing pipe produce
InnerFields(row_line) ==
    LET fields == SplitOn(row_line, "|")
        first == IF Strip(fields[1]) = <<>> THEN 2 ELSE 1
        last == IF Strip(fields[Len(fields)]) = <<>> THEN Len(fields) - 1 ELSE Len(fields)
    IN  [f \in 1..(last - first + 1) |-> Strip(fields[first + f - 1])]

\* the text drawn in one cell, run after run and line after line
RECURSIVE CellTextFrom(_, _, _, _)
CellTextFrom(unit, row, col, k) ==
    IF k > Len(ops) THEN <<>>
    ELSE (IF ops[k].op = "drawString" /\ ops[k].unit = unit
             /\ ops[k].row = row /\ ops[k].col = col
          THEN ops[k].text ELSE <<>>)
         \o CellTextFrom(unit, row, col, k + 1)

\* C13: the header's cells are the trimmed fields between the edge pipes, in
\* order: each field has its rectangle at its own position, an empty interior
\* field included, and a field of one plain word has that word drawn there.
C13_FieldsKeepTheirColumn ==
    TableDrawn =>
        \A f \in 1..Len(InnerFields(block[1])) :
            /\ RectsAt("header", 0, f - 1) # {}
            /\ InnerFields(block[1])[f] \in {<<"a">>, <<"b">>, <<"i">>}
                 => CellTextFrom("header", 0, f - 1, 1) = InnerFields(block[1])[f]

\* the wrapped-line counts of the cells of a row that are drawn
LineCounts(row_line, font) ==
    LET cells == ParseCells(row_line)
        num_cols == CellCount(block[1])
    IN  {Len(WrapText(sanitize_text(cells[c]), font, 10, CellBudget(num_cols))) :
            c \in 1..Min(Len(cells), num_cols)}

Tallest(counts) == CHOOSE m \in counts \cup {1} : \A k \in counts \cup {1} : m >= k

\* the height the header (row = -1) or the data row `row` is to have
ExpectedHeight(row) ==
    IF row = -1 THEN 10 * Tallest(LineCounts(block[1], BOLD)) + 5
    ELSE 10 * Tallest(LineCounts(RowLines[row + 1], HELV)) + 5

UnitOf(row) == IF row = -1 THEN "header" ELSE "row"

RowOpsOf(row) == UnitOps(UnitOf(row), IF row = -1 THEN 0 ELSE row)

\* the cursor a row is drawn at
CursorOf(row) == ops[CHOOSE k \in RowOpsOf(row) : TRUE].ycur

PageOf(row) == ops[CHOOSE k \in RowOpsOf(row) : TRUE].page

\* C14: the header and each data row has the height 10 * (the most wrapped
\* lines of one of its cells) + 5, at least 15; every rectangle of the row is
\* drawn with that height and the cursor moves down by it after the row.
C14_RowHeightIsTenPerLinePlusFive ==
    TableDrawn =>
        /\ \A row \in -1..(Len(RowLines) - 1) :
              /\ ExpectedHeight(row) >= 15
              /\ \A k \in RowOpsOf(row) :
                    /\ ops[k].ycur = CursorOf(row)
                    /\ ops[k].op = "rect" => ops[k].h = ExpectedHeight(row)
              /\ row >= 0 =>
                    IF PageOf(row) = PageOf(row - 1)
                    THEN CursorOf(row) = CursorOf(row - 1) - ExpectedHeight(row - 1)
                    ELSE /\ CursorOf(row - 1) - ExpectedHeight(row - 1) < bottom_margin
                         /\ CursorOf(row) = height - top_margin
        /\ y_position = CursorOf(Len(RowLines) - 1)
                          - ExpectedHeight(Len(RowLines) - 1) - line_height

\* a header one line high over a data row two lines high
C14_Witness ==
    /\ TableDrawn
    /\ Len(RowLines) >= 1
    /\ \E k \in RowOpsOf(-1) : ops[k].op = "rect" /\ ops[k].h = 15
    /\ \E k \in RowOpsOf(0) : ops[k].op = "rect" /\ ops[k].h = 25
    /\ y_position = CursorOf(-1) - 15 - 25 - line_height

(***************************************************************************)
(* Properties of pagination.                                               *)
(***************************************************************************)
\* the showPage commands among the commands of a step
ShowPages(commands) == {n \in 1..Len(commands) : commands[n].op = "showPage"}

\* C15 as stated: a document whose blocks reach below the bottom margin from
\* the first page's start position gets a page break: a finalized document of
\* one page has kept its cursor at or above the bottom margin.
C15_ExtentBelowMarginBreaksThePage ==
    (status = "done" /\ pages = 1) => y_position >= bottom_margin

\* C15, amended: a page break is triggered whenever the cursor is below the
\* bottom margin and a further line is processed (a cursor left below the
\* margin by the last line breaks no page), and the pages counted are the
\* showPage commands issued: one per page break and the final one.
C15_BreakWhenBelowMarginAndALineFollows ==
    [][ /\ (status = "run" /\ i < nlines /\ y_position < bottom_margin)
            => (ops' # <<>> /\ ops'[1].op = "showPage" /\ pages' >= pages + 1)
        /\ pages' = pages + Cardinality(ShowPages(ops'))
        /\ status' = "done" => Cardinality(ShowPages(ops')) = 1 ]_vars

\* a document finalized with more than one page
C15_Witness == status = "done" /\ pages >= 2

\* the data rows that were drawn
RowsDrawn == {ops[k].row : k \in {n \in 1..Len(ops) : ops[n].unit = "row"}}

\* C16: the second line of a table span is discarded whatever it holds, and
\* the lines from the third on are the data rows, those without a cell left
\* out: as many data rows are drawn as lines from the third on hold a cell.
C16_SecondLineIsDiscarded ==
    TableDrawn =>
        /\ RowsDrawn = 0..(Len(RowLines) - 1)
        /\ \A c \in 0..(CellCount(block[1]) - 1) : Cardinality(RectsAt("header", 0, c)) = 1
        /\ \A k \in 1..Len(ops) : ops[k].unit \in {"header", "row", "page"}

\* a span whose second line holds the cells a and b and is not drawn, above
\* one data row that is
C16_Witness ==
    /\ TableDrawn
    /\ Len(block) = 3
    /\ ParseCells(block[2]) = << <<"a">>, <<"b">> >>
    /\ RowsDrawn = {0}

\* C17: a table span of one line draws nothing, leaves the cursor where the
\* page check at the top of the loop put it, and moves the index past that
\* one line.
C17_OneLineSpanIsANoOp ==
    [][ (kind' = "table" /\ Len(block') = 1)
        => /\ \A n \in 1..Len(ops') : ops'[n].op = "showPage"
           /\ y_position' = IF y_position < bottom_margin THEN height - top_margin
                            ELSE y_position
           /\ i' = i + 1
           /\ status' = "run" ]_vars

\* a one-line span at the head of a document, the cursor still at its start
C17_Witness ==
    /\ kind = "table"
    /\ Len(block) = 1
    /\ i = 1
    /\ ops = <<>>
    /\ y_position = height - 120

(***************************************************************************)
(* The block dispatcher over a whole document: which lines each iteration  *)
(* of the main loop takes.  The table branch collects its span line by     *)
(* line; every other branch takes the one line.                            *)
(***************************************************************************)
MaxDocLen == 3

DocLines ==
    { <<"|", "a", "|">>,
      <<"a", "|", "b">>,
      <<" ", "|", "a">>,
      <<"*", "*", "*">>,
      <<"-", "-", "-">>,
      <<"*", " ", "a">>,
      <<"#", "#", "#", " ", "a">>,
      <<"#", "#", " ", "a">>,
      <<"#", " ", "a">>,
      <<">", " ", "a">>,
      <<"1", ".", " ", "a">>,
      <<>>,
      <<"a">> }

Documents == BoundedSeq(DocLines, MaxDocLen) \ {<<>>}

\* a collecting loop that stops at a line that does not start with a pipe
InSpanIfItStartsWithAPipe(line) == StartsWith(Strip(line), <<"|">>)

\* '|' in lines[i]
InSpan(line) == Contains(line, "|")

InitDispatch ==
    /\ DocIdle
    /\ fnArgs \in {[fn |-> "dispatch", lines |-> d] : d \in Documents}
    /\ fnRet = [i |-> 0, collecting |-> FALSE, table_lines |-> <<>>, blocks |-> <<>>]
    /\ fnDone = FALSE

Dispatching == ~fnDone /\ fnArgs.fn = "dispatch"

\* the block an iteration was: its kind, the index it started at, its lines
Block(k, first, count) == [kind |-> k, first |-> first, count |-> count]

\* the table branch is entered: table_lines = []
StartTable ==
    /\ Dispatching
    /\ ~fnRet.collecting
    /\ fnRet.i < Len(fnArgs.lines)
    /\ Classify(Strip(fnArgs.lines[fnRet.i + 1])) = "table"
    /\ fnRet' = [fnRet EXCEPT !.collecting = TRUE, !.table_lines = <<>>]
    /\ UNCHANGED <<fnArgs, fnDone, docVars>>

\* while i < len(lines) and '|' in lines[i]: table_lines.append(lines[i]); i += 1
CollectLine ==
    /\ Dispatching
    /\ fnRet.collecting
    /\ fnRet.i < Len(fnArgs.lines)
    /\ InSpan(fnArgs.lines[fnRet.i + 1])
    /\ fnRet' = [fnRet EXCEPT !.i = fnRet.i + 1,
                              !.table_lines = Append(fnRet.table_lines,
                                                     fnArgs.lines[fnRet.i + 1])]
    /\ UNCHANGED <<fnArgs, fnDone, docVars>>

\* the collecting loop ends; the table is drawn; continue
EndTable ==
    /\ Dispatching
    /\ fnRet.collecting
    /\ ~(fnRet.i < Len(fnArgs.lines) /\ InSpan(fnArgs.lines[fnRet.i + 1]))
    /\ fnRet' = [fnRet EXCEPT
                    !.collecting = FALSE,
                    !.blocks = Append(fnRet.blocks,
                                      Block("table", fnRet.i - Len(fnRet.table_lines),
                                            Len(fnRet.table_lines)))]
    /\ UNCHANGED <<fnArgs, fnDone, docVars>>

\* any other branch: the line is handled, i += 1
DispatchLine ==
    /\ Dispatching
    /\ ~fnRet.collecting
    /\ fnRet.i < Len(fnArgs.lines)
    /\ Classify(Strip(fnArgs.lines[fnRet.i + 1])) # "table"
    /\ fnRet' = [fnRet EXCEPT
                    !.i = fnRet.i + 1,
                    !.blocks = Append(fnRet.blocks,
                                      Block(Classify(Strip(fnArgs.lines[fnRet.i + 1])),
                                            fnRet.i, 1))]
    /\ UNCHANGED <<fnArgs, fnDone, docVars>>

\* while i < len(lines) fails
DispatchExit ==
    /\ Dispatching
    /\ ~fnRet.collecting
    /\ fnRet.i >= Len(fnArgs.lines)
    /\ fnDone' = TRUE
    /\ UNCHANGED <<fnArgs, fnRet, docVars>>

NextDispatch == StartTable \/ CollectLine \/ EndTable \/ DispatchLine \/ DispatchExit

SpecDispatch == InitDispatch /\ [][NextDispatch]_vars

InDispatch == fnArgs.fn = "dispatch"

\* C18: a table span is the longest run of lines holding a `|` from the line
\* that started it; the index is then at the first line without `|` or at the
\* end, and the blocks take the lines one after the other: none is skipped
\* and none is taken twice.
C18_SpanIsTheLongestRunOfPipeLines ==
    InDispatch =>
        LET blocks == fnRet.blocks
            lines == fnArgs.lines
        IN  /\ \A k \in 1..Len(blocks) :
                  /\ blocks[k].count >= 1
                  /\ blocks[k].first = IF k = 1 THEN 0
                                       ELSE blocks[k - 1].first + blocks[k - 1].count
                  /\ blocks[k].kind = "table" =>
                        /\ \A n \in 1..blocks[k].count :
                              Contains(lines[blocks[k].first + n], "|")
                        /\ \/ blocks[k].first + blocks[k].count = Len(lines)
                           \/ ~Contains(lines[blocks[k].first + blocks[k].count + 1], "|")
                  /\ blocks[k].kind # "table" => blocks[k].count = 1
            /\ ~fnRet.collecting =>
                  fnRet.i = IF blocks = <<>> THEN 0
                            ELSE blocks[Len(blocks)].first + blocks[Len(blocks)].count
            /\ fnDone => fnRet.i = Len(lines)

\* a span of two lines, the second not starting with a pipe, and the line
\* after it taken by a block of its own
C18_Witness ==
    /\ InDispatch
    /\ fnDone
    /\ Len(fnRet.blocks) = 2
    /\ fnRet.blocks[1] = Block("table", 0, 2)
    /\ fnArgs.lines[2] = <<"a", "|", "b">>
    /\ fnRet.blocks[2] = Block("paragraph", 2, 1)

\* the block kinds in the order the dispatcher tries them
KindOrder ==
    <<"table", "rule", "quote", "h3", "h2", "h1", "bullet", "numbered", "blank", "paragraph">>

Prefixed(s, p) == Len(s) >= Len(p) /\ SubSeq(s, 1, Len(p)) = p

\* the pattern of each block kind, on the trimmed line
Matches(k, s) ==
    CASE k = "table" -> Prefixed(s, <<"|">>)
      [] k = "rule" -> Len(s) >= 3 /\ {s[n] : n \in 1..Len(s)} \subseteq {"-", "_", "*"}
      [] k = "quote" -> Prefixed(s, <<">", " ">>)
      [] k = "h3" -> Prefixed(s, <<"#", "#", "#", " ">>)
      [] k = "h2" -> Prefixed(s, <<"#", "#", " ">>)
      [] k = "h1" -> Prefixed(s, <<"#", " ">>)
      [] k = "bullet" -> Prefixed(s, <<"-", " ">>) \/ Prefixed(s, <<"*", " ">>)
      [] k = "numbered" ->
           \E d \in 1..Len(s) :
               /\ \A n \in 1..d : s[n] \in Digits
               /\ Prefixed(SubSeq(s, d + 1, Len(s)), <<".", " ">>)
                  \/ Prefixed(SubSeq(s, d + 1, Len(s)), <<".", "\t">>)
      [] k = "blank" -> s = <<>>
      [] OTHER -> TRUE

FirstKind(s) == KindOrder[Least({n \in 1..Len(KindOrder) : Matches(KindOrder[n], s)})]

\* the trimmed line a block started at
StartLine(b) == Strip(fnArgs.lines[b.first + 1])

\* C19: every trimmed line gets the first block kind whose pattern matches
\* it, in the order table, rule, quote, heading 3, 2, 1, bullet, numbered,
\* blank, paragraph: a line of three `*` or `-` is a rule and no bullet,
\* `### x` is a heading 3 and no heading 1, and a line that holds a pipe
\* without starting with one starts no table.
C19_FirstMatchingKindInOrder ==
    InDispatch =>
        \A k \in 1..Len(fnRet.blocks) :
            LET b == fnRet.blocks[k]
            IN  /\ b.kind = FirstKind(StartLine(b))
                /\ StartLine(b) \in {<<"*", "*", "*">>, <<"-", "-", "-">>} => b.kind = "rule"
                /\ StartLine(b) = <<"#", "#", "#", " ", "a">> => b.kind = "h3"
                /\ (Contains(StartLine(b), "|") /\ StartLine(b)[1] # "|") => b.kind # "table"

\* a document of `***`, `### a` and `a|b`, dispatched to its end
C19_Witness ==
    /\ InDispatch
    /\ fnDone
    /\ fnArgs.lines = << <<"*", "*", "*">>, <<"#", "#", "#", " ", "a">>, <<"a", "|", "b">> >>
    /\ fnRet.blocks = <<Block("rule", 0, 1), Block("h3", 1, 1), Block("paragraph", 2, 1)>>

\* the cursor along one step: before it, at each of its commands, after it
StepCursors(y0, commands, y1) ==
    <<y0>> \o [n \in 1..Len(commands) |-> commands[n].ycur] \o <<y1>>

\* from one cursor value to the next the cursor does not rise, but across a
\* page break, taken below the bottom margin, where it restarts at the top
\* margin; the showPage that ends the document moves no cursor
FallsWithinPages(y0, commands, y1, final) ==
    LET v == StepCursors(y0, commands, y1)
    IN  \A k \in 2..Len(v) :
            IF k >= 3 /\ commands[k - 2].op = "showPage" /\ ~final
            THEN /\ v[k - 1] < bottom_margin
                 /\ v[k] <= height - top_margin
                 /\ k < Len(v) => v[k] = height - top_margin
            ELSE v[k] <= v[k - 1]

\* the advance per line of each block kind
LineAdvance(k) ==
    CASE k = "h1" -> 18
      [] k = "h2" -> 16
      [] k = "blank" -> 7
      [] OTHER -> 14

AfterTopCheck(y) == IF y < bottom_margin THEN height - top_margin ELSE y

LastOp(commands) == commands[Len(commands)]

\* C20: within a page the cursor never rises: a block step leaves it or
\* lowers it (18, 16, 14 per heading line of level 1, 2, 3, 14 per text line
\* or rule, 7 per blank line, the row height per table row and 14 after a
\* table); it rises only at a page break, to height - 72 exactly; the first
\* page starts at height - 120.
C20_CursorFallsWithinAPage ==
    /\ y_position = height - 120
    /\ pages = 0
    /\ [][ /\ FallsWithinPages(y_position, ops', y_position', kind' = "finish")
           /\ kind' \in {"blank", "rule"} =>
                 y_position' = AfterTopCheck(y_position) - LineAdvance(kind')
           /\ kind' \in {"quote", "h3", "h2", "h1", "bullet", "numbered", "paragraph"} =>
                 /\ LastOp(ops').unit = "text"
                 /\ y_position' = LastOp(ops').ycur - LineAdvance(kind')
                 /\ \A m \in 1..(Len(ops') - 1) :
                       (ops'[m].unit = "text" /\ ops'[m + 1].unit = "text"
                        /\ ops'[m + 1].ln = ops'[m].ln + 1)
                       => ops'[m + 1].ycur = ops'[m].ycur - LineAdvance(kind')
           /\ (kind' = "table" /\ status' = "run" /\ Len(block') >= 2) =>
                 \E m \in 1..Len(ops') :
                     /\ ops'[m].op = "rect"
                     /\ ops'[m].row = LastOp(ops').row /\ ops'[m].unit = LastOp(ops').unit
                     /\ y_position' = ops'[m].ycur - ops'[m].h - 14
           /\ (kind' = "table" /\ Len(block') = 1) => y_position' = AfterTopCheck(y_position)
           /\ kind' = "finish" => y_position' = y_position ]_vars

\* a heading 1 drawn right after a page break: the cursor rose to the top
\* margin and fell by 18
C20_Witness ==
    /\ kind = "h1"
    /\ Len(ops) = 2
    /\ ops[1].op = "showPage"
    /\ ops[2].ycur = height - top_margin
    /\ y_position = height - top_margin - 18

(***************************************************************************)
(* Properties of blank lines, termination and empty pages.                 *)
(***************************************************************************)
\* C21: a line that is empty after trimming takes one line, issues no
\* command, lowers the cursor by 7 and changes nothing else of the layout
\* state.
C21_BlankLineOnlyLowersTheCursor ==
    [][ kind' = "blank"
        => /\ i' = i + 1
           /\ Len(block') = 1
           /\ ops' = <<>>
           /\ y_position' = y_position - 7
           /\ pages' = pages
           /\ page_drawn' = page_drawn
           /\ status' = status ]_vars

\* the texts of the runs, one after the other
RunsText(runs) == Concat([n \in 1..Len(runs) |-> runs[n].text])

NotDelimiter(c) == c \notin Delimiters

\* C22 as stated: the runs' texts, concatenated, are the line without its `*`
\* and backtick characters, and no run holds a `*` or a backtick.
C22_RunsAreTheLineWithoutDelimiters ==
    ScanDone =>
        /\ RunsText(fnRet.runs) = SelectSeq(fnArgs.wrap_line, NotDelimiter)
        /\ \A n \in 1..Len(fnRet.runs) :
              \A c \in 1..Len(fnRet.runs[n].text) : fnRet.runs[n].text[c] \notin Delimiters

\* C22, amended: every character of the line that is no delimiter is in
\* exactly one run, in its order; the scan strips the delimiters it consumes,
\* and a delimiter character enclosed in a matched span of another delimiter
\* stays in the run: a plain run holds no delimiter, an italic run no `*`, a
\* code run no backtick and a bold run no `**`.
C22_RunsKeepEveryOtherCharacter ==
    ScanDone =>
        /\ SelectSeq(RunsText(fnRet.runs), NotDelimiter)
              = SelectSeq(fnArgs.wrap_line, NotDelimiter)
        /\ Len(RunsText(fnRet.runs)) <= Len(fnArgs.wrap_line)
        /\ \A n \in 1..Len(fnRet.runs) :
              LET run == fnRet.runs[n]
              IN  /\ run.style = "Plain" => ~Contains(run.text, "*") /\ ~Contains(run.text, "TICK")
                  /\ run.style = "Italic" => ~Contains(run.text, "*")
                  /\ run.style = "Code" => ~Contains(run.text, "TICK")
                  /\ run.style = "Bold" => Find(run.text, <<"*", "*">>, 0) = -1

\* a code span that encloses a `*`: the `*` is drawn in the code run
C22_Witness ==
    /\ ScanDone
    /\ fnArgs.wrap_line = <<"TICK", "a", "*", "TICK">>
    /\ StyledText(fnRet.runs) = <<[style |-> "Code", text |-> <<"a", "*">>]>>

(***************************************************************************)
(* The loops of create_pdf_from_text, run to their end: the main loop over *)
(* the lines of a document and the inline scan over a wrapped line.  The   *)
(* program is sequential: a loop that can take its next step takes it.     *)
(***************************************************************************)
MaxLoopLen == 4

\* wrapped lines of delimiters and letters; documents of lines with and
\* without a pipe
LoopLines == BoundedSeq({"*", "TICK", "a"}, MaxLoopLen) \ {<<>>}

LoopDocuments ==
    BoundedSeq({<<"|", "a", "|">>, <<"a", "|", "b">>, <<"*", "*", "*">>, <<>>, <<"a">>},
               MaxLoopLen - 1) \ {<<>>}

InitLoops ==
    /\ DocIdle
    /\ fnDone = FALSE
    /\ \/ /\ fnArgs \in {ScanCall(l, [font |-> HELV, size |-> 11], <<>>, FALSE) :
                             l \in LoopLines}
          /\ fnRet = [j |-> 0, x |-> 0, runs |-> <<>>]
       \/ /\ fnArgs \in {[fn |-> "dispatch", lines |-> d] : d \in LoopDocuments}
          /\ fnRet = [i |-> 0, collecting |-> FALSE, table_lines |-> <<>>, blocks |-> <<>>]

NextLoops == NextInline \/ NextDispatch

SpecLoops ==
    InitLoops /\ [][NextLoops]_vars /\ WF_vars(NextInline) /\ WF_vars(NextDispatch)

\* the block the main loop finished last
LastBlock(ret) == ret.blocks[Len(ret.blocks)]

\* C23: the loops end on every input: an iteration of the inline scan raises
\* j, empty spans such as `****` and unmatched delimiters included; an
\* iteration of the main loop raises i by one at least, a table span by the
\* lines it collects and by its first line at least.
C23_LoopsAdvanceAndEnd ==
    /\ [][ /\ (fnArgs.fn = "scan" /\ ~fnDone') =>
                 /\ fnRet'.j > fnRet.j
                 /\ fnRet'.j <= Len(fnArgs.wrap_line)
           /\ (fnArgs.fn = "dispatch" /\ ~fnDone') =>
                 /\ fnRet'.i >= fnRet.i
                 /\ fnRet'.i <= Len(fnArgs.lines)
                 /\ (fnRet.collecting /\ fnRet'.collecting) => fnRet'.i = fnRet.i + 1
                 /\ (~fnRet.collecting /\ fnRet'.collecting) =>
                        InSpan(fnArgs.lines[fnRet.i + 1])
                 /\ fnRet'.blocks # fnRet.blocks =>
                        /\ LastBlock(fnRet').count >= 1
                        /\ fnRet'.i = LastBlock(fnRet').first + LastBlock(fnRet').count ]_vars
    /\ <>fnDone

\* the scan of `****`, ended: an empty bold run and nothing else
C23_Witness ==
    /\ ScanDone
    /\ fnArgs.wrap_line = <<"*", "*", "*", "*">>
    /\ StyledText(fnRet.runs) = <<[style |-> "Bold", text |-> <<>>]>>
    /\ fnRet.j = 4

\* the page that the n-th command of a step, a showPage, closes holds a
\* drawing: one issued earlier in the step since the showPage before it, or,
\* for the first showPage of the step, one issued since the last step's
DrawnBefore(commands, n, drawn) ==
    LET earlier == {m \in ShowPages(commands) : m < n}
        from == IF earlier = {} THEN 1 ELSE 1 + CHOOSE m \in earlier : \A q \in earlier : q <= m
    IN  \/ earlier = {} /\ drawn
        \/ \E m \in from..(n - 1) : IsDraw(commands[m])

\* C24: no page of the output is empty: the output has a page at least, and
\* every page that a showPage closes, the final one included, holds a drawing
\* command issued since the showPage before it.
C24_NoEmptyPage ==
    /\ [](status = "done" => pages >= 1)
    /\ [][ \A n \in ShowPages(ops') : DrawnBefore(ops', n, page_drawn) ]_vars

====
